---- MODULE Spec2Model ----
(***************************************************************************)
(* Maya Notepad (src/main.py): a text buffer (_scrollFld), a file label    *)
(* (_fName), a character-count label (_charCount), the Save menu item      *)
(* (_save_menu), the global isModified, and the files of the file system.  *)
(* Every menu command is one action; the answers given in the modal        *)
(* dialogs a command opens are its inputs.                                 *)
(***************************************************************************)
EXTENDS Integers, Sequences, FiniteSets, TLC

(***************************************************************************)
(* Bounds.                                                                 *)
(***************************************************************************)
\* Longest text the user types into the scroll field.
MaxLen == 1

(***************************************************************************)
(* Strings are sequences of characters.  LF and CR stand for the line feed *)
(* and the carriage return.                                                *)
(***************************************************************************)
LF == "LF"
CR == "CR"

\* The characters the user types: the scroll field holds line breaks as LF.
Chars == {"a", LF}

\* The texts the user can type.
Texts == UNION {[1..n -> Chars] : n \in 0..MaxLen}

\* The files the dialogs can name (fileDialog2 returns absolute paths).
Paths == {<<"/", "p">>, <<"/", "q">>}

\* What another program may have left in a file: a text with an old-Mac line end.
ExternalTexts == {<<"a", CR>>}

\* os.linesep: the tool runs on Windows (it launches "calc" and "cmd").
linesep == <<CR, LF>>

\* fileDialog2 returns None when it is cancelled; `if result:` tests it.
None == <<>>

VARIABLES
    scrollFld,   \* text of the scroll field "_scrollFld"
    fName,       \* label of the text "_fName"
    charCount,   \* label of the text "_charCount"
    save_menu,   \* enable flag of the menu item "_save_menu"
    isModified,  \* the global isModified
    disk,        \* the files that exist, with their raw content
    window,      \* the window "_notePadWin" exists
    last,        \* history: the last command and what its dialogs were answered
    savedAs      \* history: the text Save-as wrote to a file not written since

vars == <<scrollFld, fName, charCount, save_menu, isModified, disk, window,
          last, savedAs>>

(***************************************************************************)
(* Labels.                                                                 *)
(***************************************************************************)
FilePrefix == <<"F", "i", "l", "e", ":", " ">>

NotSaved == <<"N", "o", "t", " ", "s", "a", "v", "e", "d">>

\* "File: Not saved"
NotSavedLabel == FilePrefix \o NotSaved

\* f"File: {selected_save_path}"
FileLabel(path) == FilePrefix \o path

\* file_name_raw[6:]
FileNameOf(label) == SubSeq(label, 7, Len(label))

Digit == <<"0", "1", "2", "3", "4", "5", "6", "7", "8", "9">>

\* str(count), as the f-string formats it
RECURSIVE ToStr(_)
ToStr(n) ==
    IF n < 10 THEN <<Digit[n + 1]>>
    ELSE ToStr(n \div 10) \o <<Digit[(n % 10) + 1]>>

\* f" | Characters: {count}"
CharCountLabel(count) == <<" | Characters: ">> \o ToStr(count)

(***************************************************************************)
(* Files are opened in text mode: writing turns each LF into os.linesep,   *)
(* reading turns CR LF and a lone CR into LF (universal newlines).         *)
(***************************************************************************)
RECURSIVE WriteText(_)
WriteText(data) ==
    IF data = <<>> THEN <<>>
    ELSE (IF Head(data) = LF THEN linesep ELSE <<Head(data)>>)
         \o WriteText(Tail(data))

\* Mutant: the file is read without newline translation (newline='').
ReadText_untranslated(raw) == raw

RECURSIVE ReadText(_)
ReadText(raw) ==
    IF raw = <<>> THEN <<>>
    ELSE IF Head(raw) = CR
         THEN <<LF>> \o ReadText(IF Len(raw) >= 2 /\ raw[2] = LF
                                 THEN Tail(Tail(raw)) ELSE Tail(raw))
         ELSE <<Head(raw)>> \o ReadText(Tail(raw))

\* os.path.exists(file_name)
Exists(fs, path) == path \in DOMAIN fs

\* with open(path, 'w') as f: f.write(data)
WriteFile(fs, path, data) ==
    [q \in DOMAIN fs \cup {path} |-> IF q = path THEN WriteText(data) ELSE fs[q]]

\* with open(path, 'r') as f: f.read()
ReadFile(fs, path) == ReadText(fs[path])

\* The program state the handlers read and write.
Cur ==
    [scrollFld |-> scrollFld, fName |-> fName, charCount |-> charCount,
     save_menu |-> save_menu, isModified |-> isModified, disk |-> disk]

Apply(s) ==
    /\ scrollFld' = s.scrollFld
    /\ fName' = s.fName
    /\ charCount' = s.charCount
    /\ save_menu' = s.save_menu
    /\ isModified' = s.isModified
    /\ disk' = s.disk

(***************************************************************************)
(* The handlers, as functions of the state and of the dialogs' answers.    *)
(***************************************************************************)
\* Mutant: the file is compared as stored, without newline translation.
current_file_data_raw(s) ==
    IF NotSavedLabel # s.fName /\ Exists(s.disk, FileNameOf(s.fName))
    THEN s.disk[FileNameOf(s.fName)]
    ELSE <<>>

\* current_file_data of update_character_count: the content the program reads
\* from the file the label names, "" when none is named or it is missing.
current_file_data(s) ==
    LET file_name_raw == s.fName
        file_name == FileNameOf(file_name_raw)
    IN  IF NotSavedLabel # file_name_raw /\ Exists(s.disk, file_name)
        THEN ReadFile(s.disk, file_name)
        ELSE <<>>

\* Mutant: the flag is recomputed, true or false, on every call.
update_character_count_recomputed(s) ==
    [s EXCEPT !.charCount = CharCountLabel(Len(s.scrollFld)),
              !.isModified = (s.scrollFld # current_file_data(s))]

\* Mutant: the count label is not refreshed.
update_character_count_stale(s) ==
    [s EXCEPT !.isModified = IF s.scrollFld # current_file_data(s) THEN TRUE ELSE @]

update_character_count(s) ==
    LET data == s.scrollFld
        count == Len(data)
    IN  [s EXCEPT !.charCount = CharCountLabel(count),
                  !.isModified = IF data # current_file_data(s) THEN TRUE ELSE @]

\* result: the path chosen in the file dialog, or None
save_as_file(s, result) ==
    IF result # None
    THEN [s EXCEPT !.disk = WriteFile(s.disk, result, s.scrollFld),
                   !.fName = FileLabel(result),
                   !.save_menu = TRUE,
                   !.isModified = FALSE]
    ELSE s

\* confirmDialog: dismissing the dialog gives dismissString
ConfirmDialog(button) == IF button = "dismiss" THEN "Cancel" ELSE button

\* What a guard call reports besides the state: its return value, the
\* number of confirmation dialogs shown, and the Save-as dialog it opened.
NoWarning(s) ==
    [st |-> s, result |-> "None", shown |-> 0, saveDlg |-> FALSE, savedTo |-> None]

confirm_warning(s, button, dlg) ==
    LET result == ConfirmDialog(button)
    IN  IF result = "Save"
        THEN [st |-> save_as_file(s, dlg), result |-> result, shown |-> 1,
              saveDlg |-> TRUE, savedTo |-> dlg]
        ELSE [st |-> s, result |-> result, shown |-> 1,
              saveDlg |-> FALSE, savedTo |-> None]

\* Mutant: the confirm_warning() calls lack their `return`.
test_save_requirement_noReturn(s, button, dlg) ==
    LET live_data == s.scrollFld
        file_name_raw == s.fName
        file_name == FileNameOf(file_name_raw)
        warn ==
            IF NotSavedLabel = file_name_raw
            THEN live_data # <<>>
            ELSE IF ~Exists(s.disk, file_name) THEN TRUE
                 ELSE live_data # ReadFile(s.disk, file_name)
        first == IF warn THEN confirm_warning(s, button, dlg) ELSE NoWarning(s)
        second == IF first.st.isModified /\ live_data # <<>>
                  THEN confirm_warning(first.st, button, dlg)
                  ELSE [NoWarning(first.st) EXCEPT !.result = first.result]
    IN  [second EXCEPT !.shown = first.shown + second.shown,
                       !.saveDlg = first.saveDlg \/ second.saveDlg,
                       !.savedTo = IF second.savedTo # None THEN second.savedTo
                                   ELSE first.savedTo]

\* Mutant: the guard trusts the flag alone and compares nothing.
test_save_requirement_flagOnly(s, button, dlg) ==
    IF s.isModified /\ s.scrollFld # <<>>
    THEN confirm_warning(s, button, dlg)
    ELSE NoWarning(s)

test_save_requirement(s, button, dlg) ==
    LET live_data == s.scrollFld
        file_name_raw == s.fName
        file_name == FileNameOf(file_name_raw)
        warn ==
            IF NotSavedLabel = file_name_raw
            THEN live_data # <<>>
            ELSE IF ~Exists(s.disk, file_name) THEN TRUE
                 ELSE live_data # ReadFile(s.disk, file_name)
    IN  IF warn THEN confirm_warning(s, button, dlg)
        ELSE IF s.isModified /\ live_data # <<>>
             THEN confirm_warning(s, button, dlg)
             ELSE NoWarning(s)

\* Mutant: without a named file save_file returns and opens no dialog.
save_file_noDialog(s, dlg) ==
    IF NotSavedLabel = s.fName THEN s
    ELSE [s EXCEPT !.disk = WriteFile(s.disk, FileNameOf(s.fName), s.scrollFld),
                   !.isModified = FALSE]

\* Mutant: the flag is not reset after the write.
save_file_flagKept(s, dlg) ==
    IF NotSavedLabel = s.fName
    THEN save_as_file(s, dlg)
    ELSE [s EXCEPT !.disk = WriteFile(s.disk, FileNameOf(s.fName), s.scrollFld)]

save_file(s, dlg) ==
    LET file_name_raw == s.fName
        file_name == FileNameOf(file_name_raw)
    IN  IF NotSavedLabel = file_name_raw
        THEN save_as_file(s, dlg)
        ELSE [s EXCEPT !.disk = WriteFile(s.disk, file_name, s.scrollFld),
                       !.isModified = FALSE]

\* The files the Open dialog (fileMode=1) can return after the guard ran.
Openable(t) == {None} \cup {p \in Paths : Exists(t.st.disk, p)}

\* t: what the guard reported; result: the path chosen in the Open dialog
open_file(t, result) ==
    IF result # None
    THEN [t.st EXCEPT !.scrollFld = ReadFile(t.st.disk, result),
                      !.fName = FileLabel(result),
                      !.save_menu = TRUE]
    ELSE t.st

\* Mutant: the flag is not reset.
new_file_flagKept(t) ==
    IF t.result = "Cancel" THEN t.st
    ELSE [t.st EXCEPT !.scrollFld = <<>>,
                      !.fName = NotSavedLabel,
                      !.save_menu = FALSE]

\* Mutant: the Save menu item is not disabled.
new_file_menuKept(t) ==
    IF t.result = "Cancel" THEN t.st
    ELSE [t.st EXCEPT !.scrollFld = <<>>,
                      !.fName = NotSavedLabel,
                      !.isModified = FALSE]

\* Mutant: the guard's answer is ignored, as open_file ignores it.
new_file_unguarded(t) ==
    [t.st EXCEPT !.scrollFld = <<>>,
                 !.fName = NotSavedLabel,
                 !.save_menu = FALSE,
                 !.isModified = FALSE]

\* t: what the guard reported
new_file(t) ==
    IF t.result = "Cancel" THEN t.st
    ELSE [t.st EXCEPT !.scrollFld = <<>>,
                      !.fName = NotSavedLabel,
                      !.save_menu = FALSE,
                      !.isModified = FALSE]

\* Mutant: Clear resets the editor as New does.
clear_field_asNew(s) ==
    [s EXCEPT !.scrollFld = <<>>,
              !.fName = NotSavedLabel,
              !.save_menu = FALSE,
              !.isModified = FALSE]

clear_field(s) == [s EXCEPT !.scrollFld = <<>>]

(***************************************************************************)
(* History.                                                                *)
(***************************************************************************)
Buttons == {"Save", "Yes", "Cancel", "dismiss"}

\* What the user does in the guard: a button of the confirmation dialog
\* and, after "Save", the answer to the Save-as file dialog.
Answers ==
    {<<b, None>> : b \in Buttons} \cup {<<"Save", p>> : p \in Paths}

Hist(op, t, picked) ==
    [op |-> op, shown |-> t.shown, result |-> t.result,
     saveDlg |-> t.saveDlg, savedTo |-> t.savedTo, picked |-> picked]

\* A command that opens no guard.
Plain(op) == Hist(op, NoWarning(Cur), None)

\* savedAs after a command: `to` is the path Save-as wrote (or None) and
\* `others` the paths written or removed otherwise.
Remember(to, others) ==
    [p \in ((DOMAIN savedAs) \ others) \cup (IF to = None THEN {} ELSE {to}) |->
        IF p = to THEN scrollFld ELSE savedAs[p]]

(***************************************************************************)
(* Initial state: lines 44 and 178-228.                                    *)
(***************************************************************************)
Init ==
    /\ scrollFld = <<>>
    /\ fName = NotSavedLabel
    /\ charCount = CharCountLabel(0)
    /\ save_menu = FALSE
    /\ isModified = FALSE
    /\ disk = <<>>
    /\ window = TRUE
    /\ last = Plain("init")
    /\ savedAs = <<>>

(***************************************************************************)
(* Actions.                                                                *)
(***************************************************************************)
\* The user edits the text of the scroll field.
Type ==
    /\ window
    /\ \E data \in Texts :
        /\ data # scrollFld
        /\ scrollFld' = data
    /\ last' = Plain("type")
    /\ UNCHANGED <<fName, charCount, save_menu, isModified, disk, window,
                   savedAs>>

\* The idle scriptJob (and the scroll field's changeCommand).
Idle ==
    /\ window
    /\ Apply(update_character_count(Cur))
    /\ last' = Plain("idle")
    /\ UNCHANGED <<window, savedAs>>

New ==
    /\ window
    /\ \E a \in Answers :
        LET t == test_save_requirement(Cur, a[1], a[2])
        IN  /\ Apply(new_file(t))
            /\ last' = Hist("new", t, None)
            /\ savedAs' = Remember(t.savedTo, {})
    /\ UNCHANGED window

Open ==
    /\ window
    /\ \E a \in Answers :
        LET t == test_save_requirement(Cur, a[1], a[2])
        IN  \E result \in Openable(t) :
                /\ Apply(open_file(t, result))
                /\ last' = Hist("open", t, result)
                /\ savedAs' = Remember(t.savedTo, {})
    /\ UNCHANGED window

\* File > Save: the menu item runs save_file only while it is enabled.
Save ==
    /\ window
    /\ save_menu
    /\ \E dlg \in {None} \cup Paths :
        LET viaDialog == NotSavedLabel = fName
        IN  /\ Apply(save_file(Cur, dlg))
            /\ last' = [Plain("save") EXCEPT
                            !.saveDlg = viaDialog,
                            !.savedTo = IF viaDialog THEN dlg ELSE None]
            /\ savedAs' = IF viaDialog THEN Remember(dlg, {})
                          ELSE Remember(None, {FileNameOf(fName)})
    /\ UNCHANGED window

SaveAs ==
    /\ window
    /\ \E dlg \in {None} \cup Paths :
        /\ Apply(save_as_file(Cur, dlg))
        /\ last' = [Plain("save_as") EXCEPT !.saveDlg = TRUE, !.savedTo = dlg]
        /\ savedAs' = Remember(dlg, {})
    /\ UNCHANGED window

Clear ==
    /\ window
    /\ Apply(clear_field(Cur))
    /\ last' = Plain("clear")
    /\ UNCHANGED <<window, savedAs>>

\* File > Quit: the scriptJob is killed and the window deleted.
Quit ==
    /\ window
    /\ window' = FALSE
    /\ last' = Plain("quit")
    /\ UNCHANGED <<scrollFld, fName, charCount, save_menu, isModified, disk,
                   savedAs>>

\* Another program writes a file of the directory.
ExternalWrite ==
    /\ window
    /\ \E p \in Paths, raw \in ExternalTexts :
        /\ disk' = [q \in DOMAIN disk \cup {p} |-> IF q = p THEN raw ELSE disk[q]]
        /\ savedAs' = Remember(None, {p})
    /\ last' = Plain("external")
    /\ UNCHANGED <<scrollFld, fName, charCount, save_menu, isModified, window>>

\* Another program removes a file of the directory.
ExternalDelete ==
    /\ window
    /\ \E p \in DOMAIN disk :
        /\ disk' = [q \in DOMAIN disk \ {p} |-> disk[q]]
        /\ savedAs' = Remember(None, {p})
    /\ last' = Plain("external")
    /\ UNCHANGED <<scrollFld, fName, charCount, save_menu, isModified, window>>

Next ==
    \/ Type
    \/ Idle
    \/ New
    \/ Open
    \/ Save
    \/ SaveAs
    \/ Clear
    \/ Quit
    \/ ExternalWrite
    \/ ExternalDelete

Spec == Init /\ [][Next]_vars

\* save_file run by the host whatever the state of the menu item: it is a
\* function of the script's module, and its first branch (lines 130-132)
\* serves a caller that finds no file named.
SaveCall ==
    /\ window
    /\ \E dlg \in {None} \cup Paths :
        LET viaDialog == NotSavedLabel = fName
        IN  /\ Apply(save_file(Cur, dlg))
            /\ last' = [Plain("save") EXCEPT
                            !.saveDlg = viaDialog,
                            !.savedTo = IF viaDialog THEN dlg ELSE None]
            /\ savedAs' = IF viaDialog THEN Remember(dlg, {})
                          ELSE Remember(None, {FileNameOf(fName)})
    /\ UNCHANGED window

NextCall ==
    \/ Next
    \/ SaveCall

CallSpec == Init /\ [][NextCall]_vars

\* The host runs the idle scriptJob again and again while the window exists.
FairSpec == Spec /\ WF_vars(Idle)

(***************************************************************************)
(* Properties.  A step of a command is recognised by the history it        *)
(* leaves: last'.op names the command that made the step.                  *)
(***************************************************************************)
\* The buffer holds changes no file holds: no file is named and the buffer
\* is not empty, or the named file is missing, or its content differs.
UnsavedChanges ==
    IF fName = NotSavedLabel THEN scrollFld # <<>>
    ELSE \/ ~Exists(disk, FileNameOf(fName))
         \/ ReadFile(disk, FileNameOf(fName)) # scrollFld

\* A file is named, exists, and its content equals the buffer.
InSync ==
    /\ fName # NotSavedLabel
    /\ Exists(disk, FileNameOf(fName))
    /\ ReadFile(disk, FileNameOf(fName)) = scrollFld

\* The count label shows the length of the buffer.
CountShown == charCount = CharCountLabel(Len(scrollFld))

\* C1 (as claimed): when the buffer holds unsaved changes and the
\* confirmation dialog raised by Open is answered Cancel, Open leaves the
\* buffer text and the file label as they were.
C1_OpenCancelAbandons ==
    [][(last'.op = "open" /\ last'.result = "Cancel" /\ UnsavedChanges)
        => (scrollFld' = scrollFld /\ fName' = fName)]_vars

\* C2: when the confirmation dialog raised by New is answered Cancel (or
\* dismissed), New leaves the buffer, the file label, the Save menu item,
\* isModified and every file as they were.
C2_NewCancelChangesNothing ==
    [][(last'.op = "new" /\ last'.result = "Cancel")
        => UNCHANGED <<scrollFld, fName, save_menu, isModified, disk>>]_vars

\* New was cancelled with text in the buffer.
C2_Witness ==
    /\ last.op = "new"
    /\ last.result = "Cancel"
    /\ last.shown = 1
    /\ scrollFld # <<>>

\* C3 (as claimed): when the dialog of New or Open is answered Save and the
\* command goes on to clear or replace the buffer, some file then holds the
\* text the buffer held.
C3_SaveAnswerKeepsText ==
    [][(/\ last'.op \in {"new", "open"}
        /\ last'.result = "Save"
        /\ last'.op = "open" => last'.picked # None)
        => \E p \in DOMAIN disk' : ReadFile(disk', p) = scrollFld]_vars

\* C4 (as claimed): after update_character_count, isModified is true if and
\* only if the buffer differs from the on-disk content of the current file.
C4_FlagIffDiffers ==
    last.op = "idle" => (isModified <=> scrollFld # current_file_data(Cur))

\* C4 (amended): update_character_count sets isModified when the buffer
\* differs from the on-disk content of the current file and otherwise
\* leaves the flag as it was.
C4_FlagSetNeverCleared ==
    [][last'.op = "idle"
        => isModified' = (isModified \/ scrollFld # current_file_data(Cur))]_vars

\* The callback ran with buffer and disk equal and the flag stayed true.
C4_Witness ==
    /\ last.op = "idle"
    /\ isModified
    /\ scrollFld = current_file_data(Cur)

\* C5: after update_character_count the count label shows the length of the
\* buffer; while the window exists a wrong count is eventually put right;
\* and a right count stays right for as long as the buffer does not change.
C5_LiveCounter ==
    /\ [](last.op = "idle" => CountShown)
    /\ (window /\ ~CountShown) ~> (CountShown \/ ~window)
    /\ [][(CountShown /\ scrollFld' = scrollFld) => CountShown']_vars

\* The callback has counted a buffer that is not empty.
C5_Witness ==
    /\ last.op = "idle"
    /\ Len(scrollFld) > 0
    /\ charCount = CharCountLabel(Len(scrollFld))

\* C6: after Save with a named file, and after Save-as with a chosen path,
\* the file's content equals the buffer, the label names the file, the Save
\* menu item is enabled, isModified is false and the buffer is unchanged.
C6_SaveMakesDiskAgree ==
    [][(\/ last'.op = "save" /\ fName # NotSavedLabel
        \/ last'.op = "save_as" /\ last'.savedTo # None)
        => LET p == IF last'.op = "save" THEN FileNameOf(fName)
                    ELSE last'.savedTo
           IN  /\ Exists(disk', p)
               /\ ReadFile(disk', p) = scrollFld'
               /\ fName' = FileLabel(p)
               /\ save_menu'
               /\ ~isModified'
               /\ scrollFld' = scrollFld]_vars

\* Save has written a text with a line break to the named file.
C6_Witness ==
    /\ last.op = "save"
    /\ fName # NotSavedLabel
    /\ \E i \in 1..Len(scrollFld) : scrollFld[i] = LF
    /\ Exists(disk, FileNameOf(fName))
    /\ ReadFile(disk, FileNameOf(fName)) = scrollFld

\* C7: one run of New or Open shows the confirmation dialog at most once.
C7_OneDialog == last.op \in {"new", "open"} => last.shown <= 1

\* Open showed the dialog in a state where both tests of the guard apply:
\* no file named, text in the buffer, the flag set ("Yes" and a cancelled
\* file dialog leave that state as it was).
C7_Witness ==
    /\ last.op = "open"
    /\ last.shown = 1
    /\ last.result = "Yes"
    /\ last.picked = None
    /\ fName = NotSavedLabel
    /\ scrollFld # <<>>
    /\ isModified

\* C8: New and Open show the confirmation dialog whenever the buffer holds
\* unsaved changes, whatever isModified is.
C8_GuardNeverMisses ==
    [][(last'.op \in {"new", "open"} /\ UnsavedChanges) => last'.shown >= 1]_vars

\* Open showed the dialog for a named file that is gone, the flag not set.
C8_Witness ==
    /\ last.op = "open"
    /\ last.shown = 1
    /\ last.result = "Yes"
    /\ last.picked = None
    /\ fName # NotSavedLabel
    /\ ~Exists(disk, FileNameOf(fName))
    /\ ~isModified

\* C9 (as claimed): New and Open show no confirmation dialog when a file is
\* named, exists, and its content equals the buffer.
C9_NoSpuriousWarning ==
    [][(last'.op \in {"new", "open"} /\ InSync) => last'.shown = 0]_vars

\* C10: Open of a file that Save-as wrote and nothing has written since
\* leaves the buffer equal to the text saved, the label naming the file
\* and the Save menu item enabled.
C10_SaveAsOpenRoundTrip ==
    (last.op = "open" /\ last.picked # None /\ last.picked \in DOMAIN savedAs)
        => /\ scrollFld = savedAs[last.picked]
           /\ fName = FileLabel(last.picked)
           /\ save_menu

\* Open has read back a text with a line break that Save-as wrote, in
\* place of another the buffer held when the guard was answered "Yes".
C10_Witness ==
    /\ last.op = "open"
    /\ last.result = "Yes"
    /\ last.picked \in DOMAIN savedAs
    /\ \E i \in 1..Len(scrollFld) : scrollFld[i] = LF
    /\ scrollFld = savedAs[last.picked]

\* C11: a New that is not cancelled leaves the buffer empty, the label
\* "File: Not saved", the Save menu item disabled and isModified false; and
\* an idle callback that finds the editor so leaves isModified false.
C11_NewResets ==
    [][/\ (last'.op = "new" /\ last'.result # "Cancel")
            => /\ scrollFld' = <<>>
               /\ fName' = NotSavedLabel
               /\ ~save_menu'
               /\ ~isModified'
       /\ (/\ last'.op = "idle"
           /\ scrollFld = <<>>
           /\ fName = NotSavedLabel
           /\ ~isModified)
            => (~isModified' /\ scrollFld' = <<>> /\ fName' = NotSavedLabel)]_vars

\* The idle callback ran after a New that followed a Save-as (only New
\* takes the label back to "File: Not saved") and the flag is still false.
C11_Witness ==
    /\ last.op = "idle"
    /\ DOMAIN savedAs # {}
    /\ fName = NotSavedLabel
    /\ scrollFld = <<>>
    /\ ~save_menu
    /\ ~isModified

\* C13: the Save menu item is enabled if and only if a file is named, so
\* File > Save never opens the Save-as dialog and leaves the named file on
\* disk.
C13_SaveEnabledIffNamed ==
    /\ save_menu <=> fName # NotSavedLabel
    /\ last.op = "save"
        => /\ ~last.saveDlg
           /\ fName # NotSavedLabel
           /\ Exists(disk, FileNameOf(fName))

\* File > Save has run on a named file.
C13_Witness ==
    /\ last.op = "save"
    /\ save_menu
    /\ fName \in {FileLabel(p) : p \in Paths}
    /\ scrollFld # <<>>

\* C14: while a file is named and its content equals the buffer, no step
\* (an idle callback least of all) turns a false isModified true.
C14_CleanStaysClean ==
    [][(InSync /\ ~isModified) => ~isModified']_vars

\* The idle callback ran on a text with a line break that Save-as wrote to
\* the named file, nothing having written the file since; the flag is false.
C14_Witness ==
    /\ last.op = "idle"
    /\ InSync
    /\ ~isModified
    /\ FileNameOf(fName) \in DOMAIN savedAs
    /\ savedAs[FileNameOf(fName)] = scrollFld
    /\ \E i \in 1..Len(scrollFld) : scrollFld[i] = LF

\* C15: Edit > Clear empties the buffer, shows no confirmation dialog and
\* leaves the label, the Save menu item, isModified and every file as
\* they were.
C15_ClearOnlyEmpties ==
    [][last'.op = "clear"
        => /\ scrollFld' = <<>>
           /\ last'.shown = 0
           /\ UNCHANGED <<fName, save_menu, isModified, disk>>]_vars

\* Clear has emptied the buffer of a named file that still holds its text.
C15_Witness ==
    /\ last.op = "clear"
    /\ scrollFld = <<>>
    /\ fName # NotSavedLabel
    /\ Exists(disk, FileNameOf(fName))
    /\ ReadFile(disk, FileNameOf(fName)) # <<>>

\* C12: with no file named, Save opens the Save-as dialog and does what
\* Save-as does with its answer; and a cancelled Save-as dialog (of Save-as,
\* of Save, or of the guard's "Save" answer) writes no file and leaves the
\* buffer, the label, the Save menu item and isModified as they were (after
\* the guard, until New or Open goes on to its own work).
C12_SaveAsCancelNoOp ==
    [][/\ (last'.op = "save" /\ fName = NotSavedLabel)
            => /\ last'.saveDlg
               /\ last'.savedTo # None
                    => /\ disk' = WriteFile(disk, last'.savedTo, scrollFld)
                       /\ fName' = FileLabel(last'.savedTo)
                       /\ save_menu'
                       /\ ~isModified'
                       /\ scrollFld' = scrollFld
       /\ (/\ last'.op \in {"save", "save_as"}
           /\ last'.saveDlg
           /\ last'.savedTo = None)
            => UNCHANGED <<scrollFld, fName, save_menu, isModified, disk>>
       /\ (/\ last'.op \in {"new", "open"}
           /\ last'.saveDlg
           /\ last'.savedTo = None)
            => /\ disk' = disk
               /\ test_save_requirement(Cur, "Save", None).st = Cur
               /\ (last'.op = "open" /\ last'.picked = None)
                    => UNCHANGED <<scrollFld, fName, save_menu, isModified>>]_vars

\* Save ran with text in the buffer and no file named, and its Save-as
\* dialog was cancelled.
C12_Witness ==
    /\ last.op = "save"
    /\ last.saveDlg
    /\ last.savedTo = None
    /\ fName = NotSavedLabel
    /\ scrollFld # <<>>
    /\ disk = <<>>

====
